---------------------------- MODULE Spec2Model ----------------------------
(***************************************************************************)
(* A model of the ANS data parser (src/parse.py): year resolution          *)
(* (getYear), the attendance table (getAttendance), the set query          *)
(* (totalAttendance), the overlap matrix (generateChordDiagram) and the    *)
(* percentage normalisation done by the main program.                      *)
(*                                                                         *)
(* Python values are tagged records ([tag |-> "str", val |-> ...]) where   *)
(* the code tests a type or None; strings are sequences of one-character   *)
(* strings so that substring tests and split(' ', 1) are computed.  A dict *)
(* is the sequence of its [key, val] entries in insertion order.  A        *)
(* DataFrame is [index, columns, cells], cells a function of <<row         *)
(* position, column position>>.  The file loading, the prompt, the CSV     *)
(* export and the holoviews rendering are not modelled.                    *)
(***************************************************************************)
EXTENDS Integers, Sequences, FiniteSets

VARIABLES
    total_members_list,   \* dict: roster key -> member ids (loadData)
    total_meetings_list,  \* dict: meeting key -> registered ids (loadData)
    attendance,           \* the attendance DataFrame, PyNone before it is built
    call                  \* the last call: its arguments and what it returned or raised

vars == <<total_members_list, total_meetings_list, attendance, call>>

---------------------------------------------------------------------------
(* Bounds of the model.                                                    *)

MaxMembers == 3     \* longest roster
MaxEventLen == 2    \* longest registration list of one meeting
MaxLabels == 2      \* longest list of meeting labels passed to a query
MaxExclude == 1     \* longest exclude list

MemberIds == {1, 2}

BSeq(S, n) == UNION {[1..k -> S] : k \in 0..n}

---------------------------------------------------------------------------
(* Python values.                                                          *)

PyNone == [tag |-> "None"]
PyStr(s) == [tag |-> "str", val |-> s]
PyInt(n) == [tag |-> "int", val |-> n]
PyList(l) == [tag |-> "list", val |-> l]
NdArray(a) == [tag |-> "ndarray", val |-> a]

SP == <<" ">>
Y2023 == <<"2", "0", "2", "3">>
Y2024 == <<"2", "0", "2", "4">>
Y202 == <<"2", "0", "2">>
Y205 == <<"2", "0", "5">>
MEMBERS == <<"M", "E", "M", "B", "E", "R", "S">>

M23 == Y2023 \o SP \o MEMBERS     \* "2023 MEMBERS"
M24 == Y2024 \o SP \o MEMBERS     \* "2024 MEMBERS"
A23 == Y2023 \o SP \o <<"A">>     \* "2023 A"
A24 == Y2024 \o SP \o <<"A">>     \* "2024 A"
B24 == Y2024 \o SP \o <<"B">>     \* "2024 B"
NoSpace == <<"A">>                \* "A": a label without a year prefix

DigitChars == <<"0", "1", "2", "3", "4", "5", "6", "7", "8", "9">>

\* str(n) for n >= 0: the decimal digits
RECURSIVE Str(_)
Str(n) ==
    IF n < 10 THEN <<DigitChars[n + 1]>>
    ELSE Str(n \div 10) \o <<DigitChars[(n % 10) + 1]>>

\* Python's `y in key` on strings
IsSubstring(y, key) ==
    \E i \in 0..(Len(key) - Len(y)) : SubSeq(key, i + 1, i + Len(y)) = y

\* dict helpers
Entry(k, v) == [key |-> k, val |-> v]
Keys(d) == [i \in 1..Len(d) |-> d[i].key]
HasKey(d, k) == \E i \in 1..Len(d) : d[i].key = k
Get(d, k) == d[CHOOSE i \in 1..Len(d) : d[i].key = k].val

\* every dict with the keys of `keys`, in that order, and values from `vals`
DictsOver(keys, vals) ==
    {[i \in 1..Len(keys) |-> Entry(keys[i], v[i])] : v \in [1..Len(keys) -> vals]}

---------------------------------------------------------------------------
(* getYear                                                                 *)

RECURSIVE MemberLoop(_, _, _, _)
MemberLoop(y, d, i, member_list) ==
    IF i > Len(d) THEN member_list
    ELSE MemberLoop(y, d, i + 1,
                    IF IsSubstring(y, d[i].key) THEN NdArray(d[i].val)
                    ELSE member_list)

RECURSIVE MeetingLoop(_, _, _, _)
MeetingLoop(y, d, i, meeting_list) ==
    IF i > Len(d) THEN meeting_list
    ELSE MeetingLoop(y, d, i + 1,
                     IF IsSubstring(y, d[i].key) THEN Append(meeting_list, d[i])
                     ELSE meeting_list)

Raised(err, what) == [err |-> err, what |-> what]

\* the variant that forgets the check for an empty meeting list
getYearUnchecked(year, members, contents) ==
    LET y == IF year.tag # "str" THEN Str(year.val) ELSE year.val
        member_list == MemberLoop(y, members, 1, PyInt(-1))
        meeting_list == MeetingLoop(y, contents, 1, <<>>)
    IN  IF member_list.tag = "int" THEN Raised("KeyError", "No member list")
        ELSE [err |-> "None", member_list |-> member_list.val,
              meeting_list |-> meeting_list]

getYear(year, members, contents) ==
    LET y == IF year.tag # "str" THEN Str(year.val) ELSE year.val
        member_list == MemberLoop(y, members, 1, PyInt(-1))
        meeting_list == MeetingLoop(y, contents, 1, <<>>)
    IN  IF member_list.tag = "int" THEN Raised("KeyError", "No member list")
        ELSE IF Len(meeting_list) = 0
             THEN Raised("KeyError", "No meetings listed")
        ELSE [err |-> "None", member_list |-> member_list.val,
              meeting_list |-> meeting_list]

---------------------------------------------------------------------------
(* The year-resolution specification: the loaded dicts are drawn in the    *)
(* initial state and getYear is called on them.                            *)

Rosters == BSeq(MemberIds, MaxMembers)
Registrations == BSeq(MemberIds, MaxEventLen)

RosterKeyLists == {<<>>, <<M23>>, <<M24>>, <<M23, M24>>, <<M24, M23>>}
MeetingKeyLists == {<<>>, <<A24>>, <<A24, B24>>, <<A23, A24>>}
YearInputs == {PyStr(Y2024), PyStr(Y2023), PyStr(Y202), PyStr(Y205),
               PyInt(2024)}

NoCall == [op |-> "none"]

InitYear ==
    /\ total_members_list \in UNION {DictsOver(ks, Rosters) : ks \in RosterKeyLists}
    /\ total_meetings_list \in
           UNION {DictsOver(ks, {<<>>} \cup {<<m>> : m \in MemberIds}) :
                  ks \in MeetingKeyLists}
    /\ attendance = PyNone
    /\ call = NoCall

GetYear ==
    /\ \E year \in YearInputs :
          call' = [op |-> "getYear", year |-> year,
                   ret |-> getYear(year, total_members_list, total_meetings_list)]
    /\ UNCHANGED <<total_members_list, total_meetings_list, attendance>>

NextYear == GetYear

SpecYear == InitYear /\ [][NextYear]_vars

---------------------------------------------------------------------------
(* getAttendance                                                           *)

Range(s) == {s[i] : i \in 1..Len(s)}

\* the variant that looks at the first registration only
ContainsFirst(arr, member) == Len(arr) > 0 /\ arr[1] = member

\* numpy's `member in array`: (array == member).any()
Contains(arr, member) == \E i \in 1..Len(arr) : arr[i] = member

\* pd.DataFrame(index = ..., columns = ...): every cell is NaN
DataFrame(index, columns) ==
    [index |-> index, columns |-> columns,
     cells |-> [p \in (1..Len(index)) \X (1..Len(columns)) |-> "NaN"]]

\* meeting_log[meeting_log.isna()] = False
FillNa(log) ==
    [log EXCEPT !.cells = [p \in DOMAIN log.cells |->
                              IF log.cells[p] = "NaN" THEN "False" ELSE log.cells[p]]]

\* meeting_log.at[member, key] = True: every row labelled member
AtSetTrue(log, member, key) ==
    [log EXCEPT !.cells = [p \in DOMAIN log.cells |->
                              IF log.index[p[1]] = member /\ log.columns[p[2]] = key
                              THEN "True" ELSE log.cells[p]]]

RECURSIVE KeyLoop(_, _, _, _)
KeyLoop(log, member, mtgs, j) ==
    IF j > Len(mtgs) THEN log
    ELSE KeyLoop(IF Contains(mtgs[j].val, member)
                 THEN AtSetTrue(log, member, mtgs[j].key) ELSE log,
                 member, mtgs, j + 1)

RECURSIVE AttendanceLoop(_, _, _, _)
AttendanceLoop(log, ids, mtgs, i) ==
    IF i > Len(ids) THEN log
    ELSE AttendanceLoop(KeyLoop(log, ids[i], mtgs, 1), ids, mtgs, i + 1)

getAttendance(ids, mtgs) ==
    AttendanceLoop(FillNa(DataFrame(ids, Keys(mtgs))), ids, mtgs, 1)

---------------------------------------------------------------------------
(* DataFrame reads                                                         *)

HasColumn(df, key) == \E c \in 1..Len(df.columns) : df.columns[c] = key
ColumnOf(df, key) == CHOOSE c \in 1..Len(df.columns) : df.columns[c] = key

\* attendance[key] for a column that exists: the column as booleans
Series(df, key) ==
    [r \in 1..Len(df.index) |-> df.cells[<<r, ColumnOf(df, key)>>] = "True"]

\* series.sum()
RECURSIVE Sum(_, _)
Sum(series, r) ==
    IF r > Len(series) THEN 0
    ELSE (IF series[r] THEN 1 ELSE 0) + Sum(series, r + 1)

\* attendance[mask] for a boolean Series: the rows where it is True, in order
TakeRows(df, rows) ==
    [index |-> [k \in 1..Len(rows) |-> df.index[rows[k]]],
     columns |-> df.columns,
     cells |-> [p \in (1..Len(rows)) \X (1..Len(df.columns)) |->
                   df.cells[<<rows[p[1]], p[2]>>]]]

Positions(n) == [i \in 1..n |-> i]

GetItemMask(df, mask) ==
    TakeRows(df, SelectSeq(Positions(Len(df.index)), LAMBDA r : mask[r]))

---------------------------------------------------------------------------
(* totalAttendance                                                         *)

PyTrue == [tag |-> "bool", val |-> TRUE]
BoolSeries(v) == [tag |-> "Series", val |-> v]

\* `if exclude`: None and the empty list are falsy
Truthy(exclude) == exclude.tag = "list" /\ Len(exclude.val) > 0

\* mask & series, mask the scalar True or a boolean Series
MaskAnd(mask, series) ==
    IF mask.tag = "bool"
    THEN BoolSeries([r \in 1..Len(series) |-> mask.val /\ series[r]])
    ELSE BoolSeries([r \in 1..Len(series) |-> mask.val[r] /\ series[r]])

\* `not series`: Series.__bool__ raises for every Series
PyNot(series) == Raised("ValueError", "truth value of a Series is ambiguous")

\* the loop over meetings; read lists the columns fetched so far
RECURSIVE RequiredLoop(_, _, _, _, _, _)
RequiredLoop(df, mtgs, exclude, k, mask, read) ==
    IF k > Len(mtgs) THEN [err |-> "None", mask |-> mask, read |-> read]
    ELSE IF Truthy(exclude) /\ mtgs[k] \in Range(exclude.val)
         THEN [err |-> "KeyError", what |-> "conflict", read |-> read]
    ELSE IF ~HasColumn(df, mtgs[k])
         THEN [err |-> "KeyError", what |-> "column", read |-> read]
    ELSE RequiredLoop(df, mtgs, exclude, k + 1,
                      MaskAnd(mask, Series(df, mtgs[k])), Append(read, mtgs[k]))

\* the loop over exclude: its first pass fetches the column and raises at `not`
ExcludeLoop(df, exclude, mask, read) ==
    IF ~Truthy(exclude) THEN [err |-> "None", mask |-> mask, read |-> read]
    ELSE IF ~HasColumn(df, exclude.val[1])
         THEN [err |-> "KeyError", what |-> "column", read |-> read]
    ELSE [err |-> PyNot(Series(df, exclude.val[1])).err, what |-> "not Series",
          read |-> Append(read, exclude.val[1])]

\* what a call leaves behind: its arguments as they are afterwards, and what it
\* returned or raised
Outcome(df, mtgs, exclude, r) ==
    [attendance |-> df, meetings |-> mtgs, exclude |-> exclude, ret |-> r]

\* the variant that filters the caller's frame in place
totalAttendanceInPlace(df, mtgs, exclude) ==
    LET req == RequiredLoop(df, mtgs, exclude, 1, PyTrue, <<>>)
        exc == ExcludeLoop(df, exclude, req.mask, req.read)
    IN  IF req.err # "None" THEN Outcome(df, mtgs, exclude, req)
        ELSE IF exc.err # "None" THEN Outcome(df, mtgs, exclude, exc)
        ELSE IF exc.mask.tag = "bool"
             THEN Outcome(df, mtgs, exclude,
                          [err |-> "KeyError", what |-> "column", read |-> exc.read])
        ELSE LET result == GetItemMask(df, exc.mask.val)
             IN  Outcome(result, mtgs, exclude,
                         [err |-> "None", result |-> result,
                          count |-> Len(result.index), read |-> exc.read])

\* the variant that looks for a conflict only after the loop over meetings
totalAttendanceLateCheck(df, mtgs, exclude) ==
    LET req == RequiredLoop(df, mtgs, PyNone, 1, PyTrue, <<>>)
        exc == ExcludeLoop(df, exclude, req.mask, req.read)
    IN  IF req.err # "None" THEN Outcome(df, mtgs, exclude, req)
        ELSE IF exc.err # "None" THEN Outcome(df, mtgs, exclude, exc)
        ELSE IF exc.mask.tag = "bool"
             THEN Outcome(df, mtgs, exclude,
                          [err |-> "KeyError", what |-> "column", read |-> exc.read])
        ELSE LET result == GetItemMask(df, exc.mask.val)
             IN  Outcome(df, mtgs, exclude,
                         [err |-> "None", result |-> result,
                          count |-> Len(result.index), read |-> exc.read])

totalAttendance(df, mtgs, exclude) ==
    LET req == RequiredLoop(df, mtgs, exclude, 1, PyTrue, <<>>)
        exc == ExcludeLoop(df, exclude, req.mask, req.read)
    IN  IF req.err # "None" THEN Outcome(df, mtgs, exclude, req)
        ELSE IF exc.err # "None" THEN Outcome(df, mtgs, exclude, exc)
        \* attendance[True]: True is no column
        ELSE IF exc.mask.tag = "bool"
             THEN Outcome(df, mtgs, exclude,
                          [err |-> "KeyError", what |-> "column", read |-> exc.read])
        ELSE LET result == GetItemMask(df, exc.mask.val)
             IN  Outcome(df, mtgs, exclude,
                         [err |-> "None", result |-> result,
                          count |-> Len(result.index), read |-> exc.read])

---------------------------------------------------------------------------
(* generateChordDiagram                                                    *)

HasSpace(s) == \E i \in 1..Len(s) : s[i] = " "

\* meeting.split(' ', 1)[1]: what follows the first space
AfterFirstSpace(s) ==
    LET i == CHOOSE k \in 1..Len(s) :
                 s[k] = " " /\ \A h \in 1..(k - 1) : s[h] # " "
    IN  SubSeq(s, i + 1, Len(s))

\* [meeting.split(' ', 1)[1] for meeting in selected_meetings if ' ' in meeting]
RECURSIVE MeetingsNames(_, _)
MeetingsNames(selected, k) ==
    IF k > Len(selected) THEN <<>>
    ELSE (IF HasSpace(selected[k]) THEN <<AfterFirstSpace(selected[k])>> ELSE <<>>)
         \o MeetingsNames(selected, k + 1)

\* f"{year}": a str as it is, an int in decimal
Format(year) == IF year.tag = "str" THEN year.val ELSE Str(year.val)

\* the variant that takes the label's name for the column
ColumnNameBare(year, name) == name

\* f"{year} {meeting}"
ColumnName(year, name) == Format(year) \o SP \o name

\* the variant that counts the first column only
PairOverlapLeft(df, ci, cj) == Sum(Series(df, ci), 1)

\* (attendance[column_i] & attendance[column_j]).sum()
PairOverlap(df, ci, cj) ==
    Sum([r \in 1..Len(df.index) |-> Series(df, ci)[r] /\ Series(df, cj)[r]], 1)

\* the two loops over enumerate(meetings_names), pair k of n * n in row order
RECURSIVE OverlapLoop(_, _, _, _, _)
OverlapLoop(df, names, year, k, st) ==
    LET n == Len(names)
        i == (k \div n) + 1
        j == (k % n) + 1
        column_i == ColumnName(year, names[i])
        column_j == ColumnName(year, names[j])
    IN  IF k >= n * n THEN st
        ELSE IF i = j
        THEN IF ~HasColumn(df, column_i)
             THEN [st EXCEPT !.err = "KeyError"]
             ELSE OverlapLoop(df, names, year, k + 1,
                      [st EXCEPT !.overlap_diag[i] = Sum(Series(df, column_i), 1)])
        ELSE IF HasColumn(df, column_i) /\ HasColumn(df, column_j)
        THEN OverlapLoop(df, names, year, k + 1,
                 [st EXCEPT !.overlap_matrix[<<i, j>>] = PairOverlap(df, column_i, column_j)])
        ELSE OverlapLoop(df, names, year, k + 1,
                 [st EXCEPT !.warnings = Append(@, <<column_i, column_j>>)])

\* the edge list: one link per pair i < j of positive overlap, in row order
RECURSIVE Links(_, _, _)
Links(names, overlap_matrix, k) ==
    LET n == Len(names)
        i == (k \div n) + 1
        j == (k % n) + 1
    IN  IF k >= n * n THEN <<>>
        ELSE (IF i < j /\ overlap_matrix[<<i, j>>] > 0
              THEN <<[source |-> names[i], target |-> names[j],
                      value |-> overlap_matrix[<<i, j>>]]>>
              ELSE <<>>) \o Links(names, overlap_matrix, k + 1)

\* The rendering of the links (hv.Chord, hv.save) is holoviews' work: rendered
\* tells whether it went through or raised, and the matrix is returned only
\* if it went through.
generateChordDiagram(df, selected, year, rendered) ==
    LET names == MeetingsNames(selected, 1)
        n == Len(names)
        zeros == [overlap_matrix |-> [p \in (1..n) \X (1..n) |-> 0],
                  overlap_diag |-> [i \in 1..n |-> 0],
                  warnings |-> <<>>, err |-> "None"]
        st == OverlapLoop(df, names, year, 0, zeros)
    IN  [attendance |-> df, selected_meetings |-> selected,
         ret |-> IF st.err # "None"
                 THEN [err |-> st.err, what |-> "column", warnings |-> st.warnings]
                 ELSE IF ~rendered
                 THEN [err |-> "RenderError", what |-> "hv.Chord",
                       warnings |-> st.warnings]
                 ELSE [err |-> "None", warnings |-> st.warnings,
                       links |-> Links(names, st.overlap_matrix, 0),
                       size |-> n,
                       matrix |-> [p \in (1..n) \X (1..n) |->
                                      st.overlap_matrix[p] +
                                      (IF p[1] = p[2] THEN st.overlap_diag[p[1]] ELSE 0)]]]

---------------------------------------------------------------------------
(* The percentage table of the main program.  A float is the quotient of   *)
(* two integers, nan or inf.                                               *)

Float(a) == [kind |-> "finite", num |-> a, den |-> 1]

\* numpy's true division: x / 0 is nan for x = 0 and inf otherwise
Divide(x, y) ==
    IF x.kind # "finite" \/ y.kind # "finite" THEN [kind |-> "nan"]
    ELSE IF y.num # 0
         THEN [kind |-> "finite", num |-> x.num * y.den, den |-> x.den * y.num]
    ELSE IF x.num = 0 THEN [kind |-> "nan"] ELSE [kind |-> "inf"]

Times(x, c) == IF x.kind = "finite" THEN [x EXCEPT !.num = @ * c] ELSE x

\* for i in range(len(matrix)): matrix[i] /= matrix[i, i]; then matrix *= 100
Normalize(matrix, n) ==
    [p \in (1..n) \X (1..n) |->
        Times(Divide(Float(matrix[p]), Float(matrix[<<p[1], p[1]>>])), 100)]

---------------------------------------------------------------------------
(* The query specification: a table is built from a roster and a dict of   *)
(* meetings, and then queried.                                             *)

Labels == {A24, B24, A23, NoSpace}
LabelLists == BSeq(Labels, MaxLabels)
ExcludeArgs == {PyNone} \cup {PyList(l) : l \in BSeq(Labels, MaxExclude)}
YearArgs == {PyStr(Y2024), PyStr(Y2023), PyInt(2024)}
MeetingDicts == UNION {DictsOver(ks, Registrations) : ks \in MeetingKeyLists}

Init ==
    /\ total_members_list = <<>>
    /\ total_meetings_list = <<>>
    /\ attendance = PyNone
    /\ call = NoCall

GetAttendance ==
    /\ attendance = PyNone
    /\ \E ids \in Rosters, mtgs \in MeetingDicts :
          /\ attendance' = getAttendance(ids, mtgs)
          /\ call' = [op |-> "getAttendance", member_ids |-> ids, meetings |-> mtgs]
    /\ UNCHANGED <<total_members_list, total_meetings_list>>

TotalAttendance ==
    /\ attendance # PyNone
    /\ call = NoCall
    /\ \E mtgs \in LabelLists, exclude \in ExcludeArgs :
          LET out == totalAttendance(attendance, mtgs, exclude)
          IN  /\ attendance' = out.attendance
              /\ call' = [op |-> "totalAttendance", meetings |-> mtgs,
                          exclude |-> exclude, after |-> out]
    /\ UNCHANGED <<total_members_list, total_meetings_list>>

GenerateChordDiagram ==
    /\ attendance # PyNone
    /\ call = NoCall
    /\ \E selected \in LabelLists, year \in YearArgs, rendered \in BOOLEAN :
          LET out == generateChordDiagram(attendance, selected, year, rendered)
          IN  /\ attendance' = out.attendance
              /\ call' = [op |-> "generateChordDiagram", selected_meetings |-> selected,
                          year |-> year, rendered |-> rendered, after |-> out]
    /\ UNCHANGED <<total_members_list, total_meetings_list>>

\* the main program's table of percentages, of the matrix just returned for
\* meetings it named f"{year} {m}"
OverlapTable ==
    /\ call.op = "generateChordDiagram"
    /\ \A k \in 1..Len(call.selected_meetings) :
           \E m \in 0..Len(call.selected_meetings[k]) :
               call.selected_meetings[k] =
                   ColumnName(call.year,
                              SubSeq(call.selected_meetings[k],
                                     Len(call.selected_meetings[k]) - m + 1,
                                     Len(call.selected_meetings[k])))
    /\ call.after.ret.err = "None"
    /\ call' = [op |-> "overlapTable", matrix |-> call.after.ret.matrix,
                size |-> call.after.ret.size,
                table |-> Normalize(call.after.ret.matrix, call.after.ret.size)]
    /\ UNCHANGED <<total_members_list, total_meetings_list, attendance>>

\* the caller is done with what the last call returned
Discard ==
    /\ attendance # PyNone
    /\ call # NoCall
    /\ call' = NoCall
    /\ UNCHANGED <<total_members_list, total_meetings_list, attendance>>

Next ==
    \/ GetAttendance
    \/ TotalAttendance
    \/ GenerateChordDiagram
    \/ OverlapTable
    \/ Discard

Spec == Init /\ [][Next]_vars

---------------------------------------------------------------------------
(* Properties of getYear, under SpecYear.                                  *)

\* the year as the text the keys are searched for
Token(year) == IF year = PyInt(2024) THEN Y2024 ELSE year.val

\* key = before \o y \o after, for some before and after
Mentions(key, y) ==
    \E a \in 0..Len(key) : \E b \in a..Len(key) : SubSeq(key, a + 1, b) = y

Hits(d, y) == {i \in 1..Len(d) : Mentions(d[i].key, y)}

\* C4: when more than one roster key matches the year, getYear fails and
\* returns no roster.
C4_AmbiguousFails ==
    (call.op = "getYear"
        /\ Cardinality(Hits(total_members_list, Token(call.year))) > 1)
    => call.ret.err # "None"

\* C5: getYear raises the not-found KeyError when no roster key or no meeting
\* key matches the year; otherwise it returns the roster of a matching key
\* and exactly the meetings whose keys match, in the order of the dict.
C5_YearResolution ==
    call.op = "getYear" =>
        LET y == Token(call.year)
            rosterHits == Hits(total_members_list, y)
            meetingHits == Hits(total_meetings_list, y)
        IN  IF rosterHits = {} \/ meetingHits = {}
            THEN /\ call.ret.err = "KeyError"
                 /\ call.ret.what = (IF rosterHits = {} THEN "No member list"
                                     ELSE "No meetings listed")
            ELSE /\ call.ret.err = "None"
                 /\ \E i \in rosterHits :
                        call.ret.member_list = total_members_list[i].val
                 /\ Len(call.ret.meeting_list) = Cardinality(meetingHits)
                 /\ \A i \in 1..Len(total_meetings_list) :
                        (i \in meetingHits) <=>
                        (\E k \in 1..Len(call.ret.meeting_list) :
                            call.ret.meeting_list[k] = total_meetings_list[i])
                 /\ \A k \in 1..(Len(call.ret.meeting_list) - 1) :
                        \E i, j \in meetingHits :
                            /\ i < j
                            /\ call.ret.meeting_list[k] = total_meetings_list[i]
                            /\ call.ret.meeting_list[k + 1] = total_meetings_list[j]

\* the scenario: rosters "2023 MEMBERS" and "2024 MEMBERS" that differ, the
\* year "2024", and the 2024 roster with the 2024 meetings returned
C5_Witness ==
    /\ call.op = "getYear"
    /\ call.year = PyStr(Y2024)
    /\ Keys(total_members_list) = <<M23, M24>>
    /\ total_members_list[1].val # total_members_list[2].val
    /\ Keys(total_meetings_list) = <<A23, A24>>
    /\ call.ret.err = "None"
    /\ call.ret.member_list = total_members_list[2].val
    /\ Keys(call.ret.meeting_list) = <<A24>>

---------------------------------------------------------------------------
(* Properties of the attendance table and its queries, under Spec.         *)

\* C1: the table has the roster as its index and the meeting keys as its
\* columns, and cell (m, e) is True exactly when m occurs in the
\* registrations of e; every other cell is False.
C1_BooleanCorrectness ==
    call.op = "getAttendance" =>
        /\ attendance.index = call.member_ids
        /\ attendance.columns = Keys(call.meetings)
        /\ \A r \in 1..Len(call.member_ids), c \in 1..Len(call.meetings) :
               attendance.cells[<<r, c>>] =
                   (IF call.member_ids[r] \in Range(call.meetings[c].val)
                    THEN "True" ELSE "False")

\* a table of two rows and two columns with a True and a False cell, one
\* member registered after another one
C1_Witness ==
    /\ call.op = "getAttendance"
    /\ Len(attendance.index) = 2
    /\ Len(attendance.columns) = 2
    /\ attendance.cells[<<1, 1>>] = "True"
    /\ attendance.cells[<<1, 2>>] = "False"
    /\ Len(call.meetings[1].val) = 2
    /\ call.meetings[1].val[2] = call.member_ids[1]
    /\ call.meetings[1].val[1] # call.member_ids[1]

Required == Range(call.meetings)
Excluded == IF call.exclude.tag = "list" THEN Range(call.exclude.val) ELSE {}
Columns == Range(attendance.columns)

\* the rows that are True in every required and False in every excluded column
Wanted ==
    SelectSeq(Positions(Len(attendance.index)),
              LAMBDA r :
                  /\ \A e \in Required :
                         \E c \in 1..Len(attendance.columns) :
                             attendance.columns[c] = e /\ attendance.cells[<<r, c>>] = "True"
                  /\ \A e \in Excluded :
                         \E c \in 1..Len(attendance.columns) :
                             attendance.columns[c] = e /\ attendance.cells[<<r, c>>] = "False")

\* C2: for required columns and excluded columns that are disjoint (a
\* required column is given), totalAttendance returns exactly the rows True
\* in every required and False in every excluded column, in row order, and
\* their number.
C2_QueryResult ==
    (call.op = "totalAttendance"
        /\ Required # {}
        /\ Required \subseteq Columns
        /\ Excluded \subseteq Columns
        /\ Required \cap Excluded = {})
    => /\ call.after.ret.err = "None"
       /\ call.after.ret.result = TakeRows(attendance, Wanted)
       /\ call.after.ret.count = Len(Wanted)

\* C2 without excluded columns, which is what the code computes
C2_RequiredOnly ==
    (call.op = "totalAttendance"
        /\ Required # {}
        /\ Required \subseteq Columns
        /\ ~Truthy(call.exclude))
    => /\ call.after.ret.err = "None"
       /\ call.after.ret.result = TakeRows(attendance, Wanted)
       /\ call.after.ret.count = Len(Wanted)

\* the first position of meetings whose label is excluded too
FirstShared ==
    CHOOSE k \in 1..Len(call.meetings) :
        /\ call.meetings[k] \in Excluded
        /\ \A h \in 1..(k - 1) : call.meetings[h] \notin Excluded

\* C3: when required and excluded (columns of the table) share a label, the
\* call fails with the conflict error before any column of the table is
\* evaluated.
C3_ConflictBeforeEvaluation ==
    (call.op = "totalAttendance"
        /\ Required \cap Excluded # {}
        /\ Required \cup Excluded \subseteq Columns)
    => /\ call.after.ret.err = "KeyError"
       /\ call.after.ret.what = "conflict"
       /\ call.after.ret.read = <<>>

\* C3, amended: when required and excluded share a label, the call returns
\* no rows and no count.  It raises the conflict KeyError when the loop
\* over the required labels reaches the first shared label, after the
\* columns of the labels listed before it were evaluated; if one of those
\* is no column of the table, the KeyError of that lookup is raised.
C3_ConflictInLoop ==
    (call.op = "totalAttendance" /\ Required \cap Excluded # {})
    => LET before == SubSeq(call.meetings, 1, FirstShared - 1)
       IN  /\ call.after.ret.err = "KeyError"
           /\ DOMAIN call.after.ret = {"err", "what", "read"}
           /\ IF Range(before) \subseteq Columns
              THEN /\ call.after.ret.what = "conflict"
                   /\ call.after.ret.read = before
              ELSE /\ call.after.ret.what = "column"
                   /\ \E k \in 1..Len(before) :
                          /\ before[k] \notin Columns
                          /\ call.after.ret.read = SubSeq(before, 1, k - 1)
                          /\ Range(call.after.ret.read) \subseteq Columns

\* a conflict on the second required label, found after the column of the
\* first one was evaluated
C3_Witness ==
    /\ call.op = "totalAttendance"
    /\ Len(call.meetings) = 2
    /\ call.meetings[1] \notin Excluded
    /\ call.meetings[2] \in Excluded
    /\ Required \subseteq Columns
    /\ Len(attendance.index) > 0
    /\ call.after.ret.what = "conflict"
    /\ call.after.ret.read = <<call.meetings[1]>>

---------------------------------------------------------------------------
(* Properties of the overlap matrix and the percentage table, under Spec.  *)

Selected == call.selected_meetings

\* the number of rows True in both columns
Both(e, f) ==
    Cardinality({r \in 1..Len(attendance.index) :
                    \E c, d \in 1..Len(attendance.columns) :
                        /\ attendance.columns[c] = e
                        /\ attendance.columns[d] = f
                        /\ attendance.cells[<<r, c>>] = "True"
                        /\ attendance.cells[<<r, d>>] = "True"})

\* the matrix of the claim: one row and column per label, the rows True in
\* the label's column on the diagonal, the rows True in both columns elsewhere
MatrixReturned ==
    /\ call.after.ret.err = "None"
    /\ call.after.ret.size = Len(Selected)
    /\ DOMAIN call.after.ret.matrix = (1..Len(Selected)) \X (1..Len(Selected))
    /\ \A i, j \in 1..Len(Selected) :
           call.after.ret.matrix[<<i, j>>] = Both(Selected[i], Selected[j])

\* the matrix is computed, and returned if the rendering went through
MatrixOfLabels ==
    /\ call.after.ret.err = (IF call.rendered THEN "None" ELSE "RenderError")
    /\ call.rendered => MatrixReturned

\* C6: for every table and every list of labels that are columns of the
\* table, the matrix returned is square with one row and column per label,
\* in the caller's order, M[i][i] the rows True in column labels[i] and
\* M[i][j] the rows True in both columns.
C6_MatrixOfEveryLabelList ==
    (/\ call.op = "generateChordDiagram"
     /\ Range(Selected) \subseteq Columns
     /\ call.after.ret.err = "None")
    => MatrixReturned

\* the label is the year, one space and a name, the year without a space
OfYear(label, year) ==
    /\ ~HasSpace(Token(year))
    /\ Len(label) > Len(Token(year))
    /\ SubSeq(label, 1, Len(Token(year)) + 1) = Token(year) \o SP

\* C6, amended: for every table, every year and every list of labels that
\* are columns of the table and are made of that year, a space and a name,
\* the call raises no KeyError and, the diagram rendered, returns the matrix
\* that is square with one row and column per label, in the caller's order,
\* M[i][i] the rows True in column labels[i] and M[i][j] the rows True in
\* both columns.
C6_MatrixOfYearLabels ==
    (/\ call.op = "generateChordDiagram"
     /\ Range(Selected) \subseteq Columns
     /\ \A l \in Range(Selected) : OfYear(l, call.year))
    => MatrixOfLabels

\* two labels of the year with different marginals and a common attendee
C6_Witness ==
    /\ call.op = "generateChordDiagram"
    /\ Len(Selected) = 2
    /\ Range(Selected) \subseteq Columns
    /\ \A l \in Range(Selected) : OfYear(l, call.year)
    /\ call.after.ret.err = "None"
    /\ call.after.ret.matrix[<<1, 1>>] = 2
    /\ call.after.ret.matrix[<<1, 2>>] = 1
    /\ call.after.ret.matrix[<<2, 2>>] = 1

\* C7: a label of the year whose column is absent from the table does not
\* make the overlap computation fail: the diagram rendered, a matrix is
\* still returned.
C7_MissingColumnTolerated ==
    (/\ call.op = "generateChordDiagram"
     /\ call.rendered
     /\ \A l \in Range(Selected) : OfYear(l, call.year)
     /\ \E l \in Range(Selected) : l \notin Columns)
    => /\ call.after.ret.err = "None"
       /\ call.after.ret.size = Len(Selected)

InPercentRange(x) == x.kind = "finite" /\ 0 <= x.num /\ x.num <= 100 * x.den
IsNumber(x, v) == x.kind = "finite" /\ x.num = v * x.den

\* C8: every cell of the percentage table lies in [0, 100] and the diagonal
\* is 100; a row whose self-count is 0 is 0 throughout.
C8_PercentagesBounded ==
    call.op = "overlapTable" =>
        \A i, j \in 1..call.size :
            /\ InPercentRange(call.table[<<i, j>>])
            /\ call.matrix[<<i, i>>] = 0 => IsNumber(call.table[<<i, j>>], 0)
            /\ (call.matrix[<<i, i>>] # 0 /\ i = j) => IsNumber(call.table[<<i, j>>], 100)

\* C8 for the rows whose self-count is positive, which is what the code computes
C8_PositiveRows ==
    call.op = "overlapTable" =>
        \A i, j \in 1..call.size :
            call.matrix[<<i, i>>] # 0 =>
                /\ InPercentRange(call.table[<<i, j>>])
                /\ i = j => IsNumber(call.table[<<i, j>>], 100)

\* C9: the matrix returned is symmetric.
C9_Symmetric ==
    (call.op = "generateChordDiagram" /\ call.after.ret.err = "None")
    => \A i, j \in 1..call.after.ret.size :
           call.after.ret.matrix[<<i, j>>] = call.after.ret.matrix[<<j, i>>]

\* a matrix of two meetings of different attendance with a common attendee
C9_Witness ==
    /\ call.op = "generateChordDiagram"
    /\ \A l \in Range(Selected) : OfYear(l, call.year)
    /\ call.after.ret.err = "None"
    /\ call.after.ret.size = 2
    /\ call.after.ret.matrix[<<1, 2>>] > 0
    /\ call.after.ret.matrix[<<1, 1>>] # call.after.ret.matrix[<<2, 2>>]

\* C10: once built, the table is left as it is by every later call, also by
\* one that raises, and a call leaves its label lists as they were.
C10_TableImmutable ==
    [][attendance # PyNone =>
          /\ attendance' = attendance
          /\ call'.op = "totalAttendance" =>
                 /\ call'.after.attendance = attendance
                 /\ call'.after.meetings = call'.meetings
                 /\ call'.after.exclude = call'.exclude
          /\ call'.op = "generateChordDiagram" =>
                 /\ call'.after.attendance = attendance
                 /\ call'.after.selected_meetings = call'.selected_meetings]_vars

\* a query that returned fewer rows than the table has
C10_Witness ==
    /\ call.op = "totalAttendance"
    /\ call.after.ret.err = "None"
    /\ call.after.ret.count < Len(attendance.index)

=============================================================================
